---- MODULE Spec2Model ----
(***************************************************************************)
(* Model of the joseflys data scripts:                                     *)
(*   src/scripts/runways-formatter.py  (runway normalizer)                 *)
(*   src/airpots-formatter.py          (airport normalizer)                *)
(*   src/scripts/add-elevation.py      (elevation enricher)                *)
(*                                                                         *)
(* A Python str is a sequence of characters; a character is a one-letter   *)
(* TLA+ string ("U+00C3" and "U+2021" stand for the two non-ASCII          *)
(* characters of the surface table).  A Python call is modelled by its     *)
(* outcome: a returned value, None, or a raised exception.                 *)
(***************************************************************************)
EXTENDS Integers, Sequences, FiniteSets, TLC

VARIABLES
  pc,               \* position of the running script
  surface,          \* categorize_surface: its argument
  surface_cat,      \* categorize_surface: what the call returned
  val,              \* parse_float, parse_int: their argument
  parsed_float,     \* outcome of parse_float(val)
  parsed_int,       \* outcome of parse_int(val)
  end_row,          \* build_runway_end: its row argument
  end_prefix,       \* build_runway_end: its prefix argument
  end,              \* outcome of build_runway_end(end_row, end_prefix)
  exc,              \* the exception that ended the script, or "none"
  input_exists,     \* whether the script's INPUT_FILE exists
  rows,             \* runways main: the rows the reader has yielded so far
  runways_by_icao,  \* runways main: airport code -> list of runways
  unknown_surfaces, \* runways main: unidentified surface strings
  sorted_data,      \* runways main: the document written, as (code, list) pairs
  air_rows,         \* airports main: the rows the reader has yielded so far
  airports,         \* airports main: the list of entries
  air_output,       \* airports main: the JSON array written
  records,          \* elevation main: data["data"]
  batch_start,      \* elevation main: the loop variable i, a batch's first index
  responses,        \* elevation: what the service answered, per lookup made
  requests,         \* elevation: the first index of each batch looked up
  writes,           \* elevation: per record, how often its field was assigned
  elev_output       \* elevation main: the document written back

surfaceVars == <<surface, surface_cat>>
parseVars == <<val, parsed_float, parsed_int>>
endVars == <<end_row, end_prefix, end>>
runwayVars == <<rows, runways_by_icao, unknown_surfaces, sorted_data>>
airportVars == <<air_rows, airports, air_output>>
elevVars == <<records, batch_start, responses, requests, writes, elev_output>>
vars == <<pc, exc, input_exists, surfaceVars, parseVars, endVars, runwayVars,
          airportVars, elevVars>>

\* the value of the variables of a script that is not running
Idle == "idle"
IdleSurface == surface = Idle /\ surface_cat = Idle
IdleParse == val = Idle /\ parsed_float = Idle /\ parsed_int = Idle
IdleEnd == end_row = Idle /\ end_prefix = Idle /\ end = Idle
IdleRunways ==
  /\ rows = Idle /\ runways_by_icao = Idle
  /\ unknown_surfaces = Idle /\ sorted_data = Idle
IdleAirports == air_rows = Idle /\ airports = Idle /\ air_output = Idle
IdleElevation ==
  /\ records = Idle /\ batch_start = Idle /\ responses = Idle /\ requests = Idle
  /\ writes = Idle /\ elev_output = Idle

\* every script but the named one is idle
IdleAllBut(script) ==
  /\ IF script = "surface" THEN TRUE ELSE IdleSurface
  /\ IF script = "parse" THEN TRUE ELSE IdleParse
  /\ IF script = "end" THEN TRUE ELSE IdleEnd
  /\ IF script = "runways" THEN TRUE ELSE IdleRunways
  /\ IF script = "airports" THEN TRUE ELSE IdleAirports
  /\ IF script = "elevation" THEN TRUE ELSE IdleElevation

(***************************************************************************)
(* Bounds of the model.                                                    *)
(***************************************************************************)
MaxSurfaceLen == 4
MaxNumLen == 3
MaxRows == 3
MaxRecords == 4
\* BATCH_SIZE of add-elevation.py (100 there), scaled down
BATCH_SIZE == 2

(***************************************************************************)
(* Python values.                                                          *)
(***************************************************************************)
\* the call has not been made yet
Pending == [t |-> "pending"]
\* the Python value None, as the outcome of a call
PyNone == [t |-> "None"]
Val(x) == [t |-> "val", v |-> x]
Raise(e) == [t |-> "raise", exc |-> e]
\* None where the program expects a str (csv.DictReader's restval)
NoneStr == <<"<None>">>
\* all strings over alphabet A of length at most n
Strings(A, n) == UNION {[1..k -> A] : k \in 0..n}

(***************************************************************************)
(* str.upper, str.strip and str comparison.                                *)
(***************************************************************************)
UpperLetters ==
  <<"A","B","C","D","E","F","G","H","I","J","K","L","M",
    "N","O","P","Q","R","S","T","U","V","W","X","Y","Z">>

LowerLetters ==
  <<"a","b","c","d","e","f","g","h","i","j","k","l","m",
    "n","o","p","q","r","s","t","u","v","w","x","y","z">>

Digits == <<"0","1","2","3","4","5","6","7","8","9">>

IndexOf(seq, c) == CHOOSE i \in 1..Len(seq) : seq[i] = c
IsIn(seq, c) == \E i \in 1..Len(seq) : seq[i] = c

\* ord(c), for the characters the model's strings are made of
Ord(c) ==
  CASE IsIn(UpperLetters, c) -> 64 + IndexOf(UpperLetters, c)
    [] IsIn(LowerLetters, c) -> 96 + IndexOf(LowerLetters, c)
    [] IsIn(Digits, c) -> 47 + IndexOf(Digits, c)
    [] c = "\t" -> 9
    [] c = "\n" -> 10
    [] c = "\f" -> 12
    [] c = "\r" -> 13
    [] c = " " -> 32
    [] c = "'" -> 39
    [] c = "+" -> 43
    [] c = "-" -> 45
    [] c = "." -> 46
    [] c = "/" -> 47
    [] c = "?" -> 63
    [] c = "_" -> 95
    [] c = "U+00C3" -> 195
    [] c = "U+2021" -> 8225

\* c.upper() for one character
UpperChar(c) ==
  IF IsIn(LowerLetters, c) THEN UpperLetters[IndexOf(LowerLetters, c)] ELSE c

\* s.upper()
upper(s) == [i \in 1..Len(s) |-> UpperChar(s[i])]

\* the characters str.strip() removes (those the model's inputs use)
Whitespace == {" ", "\t", "\n", "\r", "\f"}

RECURSIVE lstrip(_)
lstrip(s) ==
  IF s # <<>> /\ Head(s) \in Whitespace THEN lstrip(Tail(s)) ELSE s

RECURSIVE rstrip(_)
rstrip(s) ==
  IF s # <<>> /\ s[Len(s)] \in Whitespace
  THEN rstrip(SubSeq(s, 1, Len(s) - 1)) ELSE s

\* s.strip()
strip(s) == rstrip(lstrip(s))

\* s[:n]
Prefix(s, n) == SubSeq(s, 1, IF n < Len(s) THEN n ELSE Len(s))

\* c.lower() for one character
LowerChar(c) ==
  IF IsIn(UpperLetters, c) THEN LowerLetters[IndexOf(UpperLetters, c)] ELSE c

\* s.lower()
lower(s) == [i \in 1..Len(s) |-> LowerChar(s[i])]

(***************************************************************************)
(* float(str) and int(float).  A float is nan, inf, -inf or the decimal    *)
(* (-1)^neg * mag / 10^scale, kept without trailing zeros.  PyFloat is     *)
(* float() on strings without exponent, underscore or non-ASCII digits:    *)
(* no input of the model has one.                                          *)
(***************************************************************************)
NaN == [k |-> "nan"]
Inf(negative) == [k |-> "inf", neg |-> negative]

RECURSIVE Fin(_, _, _)
Fin(negative, m, sc) ==
  IF sc > 0 /\ m % 10 = 0 THEN Fin(negative, m \div 10, sc - 1)
  ELSE [k |-> "fin", neg |-> negative, mag |-> m, scale |-> sc]

RECURSIVE Pow10(_)
Pow10(n) == IF n = 0 THEN 1 ELSE 10 * Pow10(n - 1)

RECURSIVE ToNat(_)
ToNat(ds) ==
  IF ds = <<>> THEN 0
  ELSE 10 * ToNat(SubSeq(ds, 1, Len(ds) - 1)) + (IndexOf(Digits, ds[Len(ds)]) - 1)

AllDigits(ds) == \A i \in 1..Len(ds) : IsIn(Digits, ds[i])

Str_inf == <<"i","n","f">>
Str_infinity == <<"i","n","f","i","n","i","t","y">>
Str_nan == <<"n","a","n">>

\* float() of the digits before and after the decimal point
FloatOfDecimal(negative, whole, frac) ==
  IF AllDigits(whole) /\ AllDigits(frac) /\ Len(whole) + Len(frac) >= 1
  THEN Val(Fin(negative, ToNat(whole \o frac), Len(frac)))
  ELSE Raise("ValueError")

\* float() of what follows the sign; dots are the places of "." in it
FloatOfBody(negative, body, dots) ==
  IF lower(body) \in {Str_inf, Str_infinity} THEN Val(Inf(negative))
  ELSE IF lower(body) = Str_nan THEN Val(NaN)
  ELSE IF dots = {} THEN FloatOfDecimal(negative, body, <<>>)
  ELSE IF Cardinality(dots) = 1
    THEN FloatOfDecimal(negative,
                        SubSeq(body, 1, (CHOOSE i \in dots : TRUE) - 1),
                        SubSeq(body, (CHOOSE i \in dots : TRUE) + 1, Len(body)))
  ELSE Raise("ValueError")

\* float() of a str without surrounding whitespace
FloatOfStripped(t) ==
  IF t # <<>> /\ t[1] \in {"+", "-"}
  THEN FloatOfBody(t[1] = "-", Tail(t), {i \in 1..Len(t) - 1 : t[i + 1] = "."})
  ELSE FloatOfBody(FALSE, t, {i \in 1..Len(t) : t[i] = "."})

\* float(s) for a str s or None
PyFloat(s) ==
  IF s = NoneStr THEN Raise("TypeError") ELSE FloatOfStripped(strip(s))

\* int(f) for a float f: truncation toward zero
PyInt(f) ==
  CASE f.k = "inf" -> Raise("OverflowError")
    [] f.k = "nan" -> Raise("ValueError")
    [] f.k = "fin" ->
         Val((IF f.neg THEN -1 ELSE 1) * (f.mag \div Pow10(f.scale)))

\* "not val" for a str or None
Falsy(v) == v = NoneStr \/ v = <<>>

(***************************************************************************)
(* runways-formatter.py: parse_float and parse_int.                        *)
(***************************************************************************)
\* "except ValueError: return None" around a call
NoneOnValueError(outcome) ==
  IF outcome = Raise("ValueError") THEN PyNone ELSE outcome

\* int(f) for the outcome f of float(val)
IntOfFloat(f) == IF f.t = "raise" THEN f ELSE PyInt(f.v)

parse_float(v) ==
  IF Falsy(v) \/ strip(v) = <<>> THEN PyNone
  ELSE NoneOnValueError(PyFloat(v))

parse_int(v) ==
  IF Falsy(v) \/ strip(v) = <<>> THEN PyNone
  ELSE NoneOnValueError(IntOfFloat(PyFloat(v)))

(***************************************************************************)
(* runways-formatter.py: the surface table and categorize_surface.         *)
(***************************************************************************)
SURFACE_CATEGORIES ==
  <<"A">> :> "PG" @@
  <<"A","S","P">> :> "PG" @@
  <<"A","S","F">> :> "PG" @@
  <<"A","S","P","H">> :> "PG" @@
  <<"A","S","P","H","-","G">> :> "PG" @@
  <<"C">> :> "PG" @@
  <<"C","O","N">> :> "PG" @@
  <<"C","O","N","C">> :> "PG" @@
  <<"C","O","N","C","-","G">> :> "PG" @@
  <<"C","G">> :> "PG" @@
  <<"T","A","R">> :> "PG" @@
  <<"B","I","T">> :> "PG" @@
  <<"M","A","C">> :> "PG" @@
  <<"P","A","V">> :> "PG" @@
  <<"A","G">> :> "PG" @@
  <<"C","C","N">> :> "PG" @@
  <<"P","F","C">> :> "PG" @@
  <<"P","E","M">> :> "PG" @@
  <<"A","P","S">> :> "PG" @@
  <<"A","S","B">> :> "PG" @@
  <<"C","0","N">> :> "PG" @@
  <<"B","R","I">> :> "PG" @@
  <<"L","I","M">> :> "PG" @@
  <<"B">> :> "PG" @@
  <<"O","O","N">> :> "PG" @@
  <<"P","A","D">> :> "PG" @@
  <<"P","A","D","/","C","O","N">> :> "PG" @@
  <<"A","S","P","H","A","L","T">> :> "PG" @@
  <<"C","O","N","C","R","E","T","E">> :> "PG" @@
  <<"B","L","A","C","K","T","O","P">> :> "PG" @@
  <<"B","L","A">> :> "PG" @@
  <<"'","A","S","P","H","A","L","T","'">> :> "PG" @@
  <<"'","C","O","N","C","R","E","T","E","'">> :> "PG" @@
  <<"'","A","S">> :> "PG" @@
  <<"'","C","O">> :> "PG" @@
  <<"R","A","I">> :> "PP" @@
  <<"P","S","P">> :> "PP" @@
  <<"M">> :> "PP" @@
  <<"M","A","T">> :> "PP" @@
  <<"M","E","T">> :> "PP" @@
  <<"A","L","U">> :> "PP" @@
  <<"O","I","L">> :> "PP" @@
  <<"S","T","E">> :> "PP" @@
  <<"P","E","R">> :> "PP" @@
  <<"R","O","O">> :> "PP" @@
  <<"D","E","C">> :> "PP" @@
  <<"N","E","O">> :> "PP" @@
  <<"O","L","D">> :> "PP" @@
  <<"R","O","U">> :> "PP" @@
  <<"?","S","T">> :> "PP" @@
  <<"P","C","N">> :> "PP" @@
  <<"T">> :> "GG" @@
  <<"T","U","R">> :> "GG" @@
  <<"T","G">> :> "GG" @@
  <<"T","U","R","F">> :> "GG" @@
  <<"T","U","R","F","-","G">> :> "GG" @@
  <<"G","R">> :> "GG" @@
  <<"G","R","S">> :> "GG" @@
  <<"G","R","A">> :> "GG" @@
  <<"G","R","A","S","S">> :> "GG" @@
  <<"G">> :> "GG" @@
  <<"T","R","T">> :> "GG" @@
  <<"E","R","B">> :> "GG" @@
  <<"H","E","R">> :> "GG" @@
  <<"P","A","D","/","G","R","A","S","S">> :> "GG" @@
  <<"T","F">> :> "GF" @@
  <<"T","U","R","F","-","F">> :> "GF" @@
  <<"S","O","D">> :> "GF" @@
  <<"S","O","F">> :> "GF" @@
  <<"G","R","E">> :> "GV" @@
  <<"G","R","V">> :> "GV" @@
  <<"G","R","R">> :> "GV" @@
  <<"G","R","V","L">> :> "GV" @@
  <<"G","V","L">> :> "GV" @@
  <<"S","T","O">> :> "GV" @@
  <<"R","O","C">> :> "GV" @@
  <<"C","O","R">> :> "GV" @@
  <<"P","I","E">> :> "GV" @@
  <<"P","I","C">> :> "GV" @@
  <<"P","I","U+00C3","U+2021">> :> "GV" @@
  <<"C","R","U">> :> "GV" @@
  <<"L","O","O">> :> "GV" @@
  <<"R","O","L">> :> "GV" @@
  <<"Z","A","H">> :> "GV" @@
  <<"O","L","I">> :> "GV" @@
  <<"P","A","C">> :> "GV" @@
  <<"Y","E","L">> :> "GV" @@
  <<"B","R","O">> :> "GV" @@
  <<"R","E","D">> :> "GV" @@
  <<"B","/","G">> :> "GV" @@
  <<"D">> :> "DT" @@
  <<"D","I","R">> :> "DT" @@
  <<"D","I","R","T">> :> "DT" @@
  <<"E","A","R">> :> "DT" @@
  <<"S","O","I">> :> "DT" @@
  <<"C","L","A">> :> "DT" @@
  <<"S","H","A">> :> "DT" @@
  <<"V","O","L">> :> "DT" @@
  <<"T","E","R">> :> "DT" @@
  <<"N","A","T">> :> "DT" @@
  <<"C","O","M">> :> "DT" @@
  <<"U","N","P">> :> "DT" @@
  <<"M","U","R">> :> "DT" @@
  <<"L","O","A">> :> "DT" @@
  <<"H","A","R">> :> "DT" @@
  <<"E","E","R">> :> "DT" @@
  <<"S","I","L">> :> "DT" @@
  <<"L","A","T">> :> "DT" @@
  <<"U">> :> "DT" @@
  <<"U","N","S">> :> "DT" @@
  <<"U","N","S","E","A","L","E","D">> :> "DT" @@
  <<"N","O","T">> :> "DT" @@
  <<"S">> :> "SD" @@
  <<"S","A","N">> :> "SD" @@
  <<"S","A","N","D">> :> "SD" @@
  <<"W">> :> "WT" @@
  <<"W","A","T">> :> "WT" @@
  <<"W","A","T","E","R">> :> "WT" @@
  <<"S","E","A">> :> "WT" @@
  <<"L","A","K">> :> "WT" @@
  <<"M","A","R">> :> "WT" @@
  <<"I","C","E">> :> "WT" @@
  <<"B","L","U">> :> "WT"

\* the return value None of categorize_surface ("unidentified")
Unidentified == "None"

\* the cascade were it to try the first 2 characters before the first 3
CategorizeNormalized_TwoBeforeThree(s) ==
  IF s = <<>> THEN Unidentified
  ELSE IF s \in DOMAIN SURFACE_CATEGORIES THEN SURFACE_CATEGORIES[s]
  ELSE IF Len(s) >= 2 /\ Prefix(s, 2) \in DOMAIN SURFACE_CATEGORIES
    THEN SURFACE_CATEGORIES[Prefix(s, 2)]
  ELSE IF Len(s) >= 3 /\ Prefix(s, 3) \in DOMAIN SURFACE_CATEGORIES
    THEN SURFACE_CATEGORIES[Prefix(s, 3)]
  ELSE IF Len(s) >= 1 /\ Prefix(s, 1) \in DOMAIN SURFACE_CATEGORIES
    THEN SURFACE_CATEGORIES[Prefix(s, 1)]
  ELSE Unidentified

\* lines 116-136: the cascade over the normalized string s
CategorizeNormalized(s) ==
  IF s = <<>> THEN Unidentified
  ELSE IF s \in DOMAIN SURFACE_CATEGORIES THEN SURFACE_CATEGORIES[s]
  ELSE IF Len(s) >= 3 /\ Prefix(s, 3) \in DOMAIN SURFACE_CATEGORIES
    THEN SURFACE_CATEGORIES[Prefix(s, 3)]
  ELSE IF Len(s) >= 2 /\ Prefix(s, 2) \in DOMAIN SURFACE_CATEGORIES
    THEN SURFACE_CATEGORIES[Prefix(s, 2)]
  ELSE IF Len(s) >= 1 /\ Prefix(s, 1) \in DOMAIN SURFACE_CATEGORIES
    THEN SURFACE_CATEGORIES[Prefix(s, 1)]
  ELSE Unidentified

categorize_surface(surface_arg) ==
  CategorizeNormalized(strip(upper(surface_arg)))

(***************************************************************************)
(* Rows and dicts.  A csv.DictReader row maps each column of the header to *)
(* a str, or to None (NoneStr) when the line is shorter than the header;   *)
(* a column the header does not have is no key of the row.  A dict is a    *)
(* function whose domain is its set of keys.                               *)
(***************************************************************************)
EmptyDict == <<>>

\* row.get(key, default)
Get(row, key, default) == IF key \in DOMAIN row THEN row[key] ELSE default

\* {key: value} if cond else {}
Item(cond, key, value) == IF cond THEN key :> value ELSE EmptyDict

\* round(f, ndigits): the model's floats have at most ndigits decimals
\* wherever the scripts round them, so that rounding leaves them as they are
round(f, ndigits) ==
  IF f.k = "fin" /\ f.scale > ndigits
  THEN LET unit == Pow10(f.scale - ndigits)
           q == f.mag \div unit
           r == f.mag % unit
       IN  Fin(f.neg, IF 2 * r > unit \/ (2 * r = unit /\ q % 2 = 1)
                      THEN q + 1 ELSE q, ndigits)
  ELSE f

(***************************************************************************)
(* runways-formatter.py: build_runway_end.                                 *)
(***************************************************************************)
\* lines 142-166, given the raw ident and the parsed fields of the side
RunwayEndOf(raw_ident, lat, lon, elev, hdg, dt) ==
  IF raw_ident = NoneStr THEN Raise("AttributeError")
  ELSE IF strip(raw_ident) = <<>> THEN PyNone
  ELSE IF elev.t = "raise" THEN elev
  ELSE IF dt.t = "raise" THEN dt
  ELSE Val(("id" :> strip(raw_ident))
           @@ Item(lat # PyNone, "lat", round(lat.v, 6))
           @@ Item(lon # PyNone, "lon", round(lon.v, 6))
           @@ Item(elev # PyNone, "elev", elev.v)
           @@ Item(hdg # PyNone, "hdg", round(hdg.v, 1))
           @@ Item(dt # PyNone /\ dt.v > 0, "dt", dt.v))

build_runway_end(row, prefix) ==
  RunwayEndOf(Get(row, prefix \o "_ident", <<>>),
              parse_float(Get(row, prefix \o "_latitude_deg", <<>>)),
              parse_float(Get(row, prefix \o "_longitude_deg", <<>>)),
              parse_int(Get(row, prefix \o "_elevation_ft", <<>>)),
              parse_float(Get(row, prefix \o "_heading_degT", <<>>)),
              parse_int(Get(row, prefix \o "_displaced_threshold_ft", <<>>)))

(***************************************************************************)
(* runways-formatter.py: main.  RunwayRow is one pass of the loop body     *)
(* over a row: it raises, skips the row (continue), or files a runway      *)
(* under a code; unknown is what it adds to unknown_surfaces before it     *)
(* ends.                                                                   *)
(***************************************************************************)
\* "if x:" for an int or None
TruthyInt(x) == x # PyNone /\ x.v # 0

\* "if x:" for a dict or None
TruthyDict(x) == x # PyNone /\ DOMAIN x.v # {}

\* the runway dict were 'lit' and 'cls' to compare the trimmed field to "1"
RunwayDict_TrimmedFlags(length, width, cat, lighted, closed, le, he) ==
  Item(TruthyInt(length), "l", length.v)
  @@ Item(TruthyInt(width), "w", width.v)
  @@ Item(cat # Unidentified, "s", cat)
  @@ Item(strip(lighted) = <<"1">>, "lit", 1)
  @@ Item(strip(closed) = <<"1">>, "cls", 1)
  @@ Item(TruthyDict(le), "le", le.v)
  @@ Item(TruthyDict(he), "he", he.v)

\* lines 198-199, 207-218: the runway dict
RunwayDict(length, width, cat, lighted, closed, le, he) ==
  Item(TruthyInt(length), "l", length.v)
  @@ Item(TruthyInt(width), "w", width.v)
  @@ Item(cat # Unidentified, "s", cat)
  @@ Item(lighted = <<"1">>, "lit", 1)
  @@ Item(closed = <<"1">>, "cls", 1)
  @@ Item(TruthyDict(le), "le", le.v)
  @@ Item(TruthyDict(he), "he", he.v)

\* lines 201-202: what the row adds to unknown_surfaces
UnknownSurface(surface_raw, cat) ==
  IF surface_raw # <<>> /\ cat = Unidentified
  THEN {upper(surface_raw)} ELSE {}

\* lines 181-224, given the raw and the parsed fields of the row
RowOutcome(raw_icao, length, width, raw_surface, unknown, runway, le, he) ==
  IF raw_icao = NoneStr
    THEN [t |-> "raise", exc |-> "AttributeError", unknown |-> {}]
  ELSE IF strip(raw_icao) = <<>> THEN [t |-> "skip", unknown |-> {}]
  ELSE IF length.t = "raise"
    THEN [t |-> "raise", exc |-> length.exc, unknown |-> {}]
  ELSE IF width.t = "raise"
    THEN [t |-> "raise", exc |-> width.exc, unknown |-> {}]
  ELSE IF raw_surface = NoneStr
    THEN [t |-> "raise", exc |-> "AttributeError", unknown |-> {}]
  ELSE IF le.t = "raise"
    THEN [t |-> "raise", exc |-> le.exc, unknown |-> unknown]
  ELSE IF he.t = "raise"
    THEN [t |-> "raise", exc |-> he.exc, unknown |-> unknown]
  ELSE IF TruthyDict(le) \/ TruthyDict(he)
    THEN [t |-> "file", icao |-> strip(raw_icao), runway |-> runway,
          unknown |-> unknown]
  ELSE [t |-> "skip", unknown |-> unknown]

\* the row with its surface stripped and categorized
RowWithSurface(row, surface_raw, cat, le, he) ==
  RowOutcome(Get(row, "airport_ident", <<>>),
             parse_int(Get(row, "length_ft", <<>>)),
             parse_int(Get(row, "width_ft", <<>>)),
             Get(row, "surface", <<>>),
             UnknownSurface(surface_raw, cat),
             RunwayDict(parse_int(Get(row, "length_ft", <<>>)),
                        parse_int(Get(row, "width_ft", <<>>)),
                        cat,
                        Get(row, "lighted", <<"0">>),
                        Get(row, "closed", <<"0">>),
                        le, he),
             le, he)

RunwayRow(row) ==
  RowWithSurface(row,
                 strip(Get(row, "surface", <<>>)),
                 categorize_surface(strip(Get(row, "surface", <<>>))),
                 build_runway_end(row, "le"),
                 build_runway_end(row, "he"))

\* runways_by_icao after "runways_by_icao[icao].append(runway)"
FileRunway(by_icao, icao, runway) ==
  IF icao \in DOMAIN by_icao
  THEN [by_icao EXCEPT ![icao] = Append(@, runway)]
  ELSE by_icao @@ (icao :> <<runway>>)

\* a < b for two str: by code point, a proper prefix first
RECURSIVE StrLess(_, _)
StrLess(a, b) ==
  IF b = <<>> THEN FALSE
  ELSE IF a = <<>> THEN TRUE
  ELSE IF Head(a) = Head(b) THEN StrLess(Tail(a), Tail(b))
  ELSE Ord(Head(a)) < Ord(Head(b))

\* the (key, value) pairs were they taken from the greatest key down
RECURSIVE SortedItems_Descending(_)
SortedItems_Descending(d) ==
  IF DOMAIN d = {} THEN <<>>
  ELSE LET greatest == CHOOSE k \in DOMAIN d :
                         \A o \in DOMAIN d \ {k} : StrLess(o, k)
       IN  <<<<greatest, d[greatest]>>>>
           \o SortedItems_Descending([k \in DOMAIN d \ {greatest} |-> d[k]])

\* sorted(d.items()): the (key, value) pairs by key (the keys of a dict
\* differ, so that the values are never compared)
RECURSIVE SortedItems(_)
SortedItems(d) ==
  IF DOMAIN d = {} THEN <<>>
  ELSE LET least == CHOOSE k \in DOMAIN d :
                      \A o \in DOMAIN d \ {k} : StrLess(k, o)
       IN  <<<<least, d[least]>>>>
           \o SortedItems([k \in DOMAIN d \ {least} |-> d[k]])

(***************************************************************************)
(* airpots-formatter.py: main.  AirportRow is one pass of the loop body    *)
(* over a row: it raises, skips the row (continue), or appends an entry    *)
(* [code, lat_f, lon_f, name, elev_f], where elev_f is an int (Val) or     *)
(* None (PyNone).                                                          *)
(***************************************************************************)
\* v or ""
OrEmpty(v) == IF Falsy(v) THEN <<>> ELSE v

\* lines 35-43: the try block on the raw fields
AirportParsed(code, lat_f, lon_f, name, elev_f) ==
  IF lat_f.t = "raise"
    THEN (IF lat_f.exc = "ValueError" THEN [t |-> "skip"] ELSE lat_f)
  ELSE IF lon_f.t = "raise"
    THEN (IF lon_f.exc = "ValueError" THEN [t |-> "skip"] ELSE lon_f)
  ELSE IF elev_f.t = "raise"
    THEN (IF elev_f.exc = "ValueError" THEN [t |-> "skip"] ELSE elev_f)
  ELSE [t |-> "append", entry |-> <<code, lat_f.v, lon_f.v, name, elev_f>>]

\* lines 22-43, given the code, the name and the raw fields
AirportOutcome(code, lat, lon, name, elevation) ==
  IF code = <<>> THEN [t |-> "skip"]
  ELSE IF Falsy(lat) \/ Falsy(lon) \/ name = <<>> THEN [t |-> "skip"]
  ELSE AirportParsed(code, PyFloat(lat), PyFloat(lon), name,
                     IF Falsy(elevation) THEN PyNone
                     ELSE IntOfFloat(PyFloat(elevation)))

\* the code were ident to come before icao_code
CodeOf_IdentFirst(icao, ident) == IF ident # <<>> THEN ident ELSE icao

\* icao or ident
CodeOf(icao, ident) == IF icao # <<>> THEN icao ELSE ident

AirportRow(row) ==
  AirportOutcome(CodeOf(strip(OrEmpty(Get(row, "icao_code", NoneStr))),
                        strip(OrEmpty(Get(row, "ident", NoneStr)))),
                 Get(row, "latitude_deg", NoneStr),
                 Get(row, "longitude_deg", NoneStr),
                 strip(OrEmpty(Get(row, "name", NoneStr))),
                 Get(row, "elevation_ft", NoneStr))

(***************************************************************************)
(* add-elevation.py: fetch_elevations and main.  A response is what one    *)
(* lookup meets: an exception of urlopen or of read, a body that does not  *)
(* decode or is no JSON, or a JSON value; of a JSON object with a list of  *)
(* objects under "results" the model keeps the list of the "elevation"     *)
(* values, in metres (Val) or null or missing (PyNone).                    *)
(***************************************************************************)
\* round(elev_m * METERS_TO_FEET) with METERS_TO_FEET = 3.28084; no input of
\* the model falls halfway between two integers
FeetOf(elev_m) ==
  LET scaled == (IF elev_m < 0 THEN -elev_m ELSE elev_m) * 328084
      nearest == (scaled + 50000) \div 100000
  IN  IF elev_m < 0 THEN -nearest ELSE nearest

\* lines 30-38: the list built from data["results"]
Converted(results) ==
  [j \in 1..Len(results) |->
     IF results[j] = PyNone THEN PyNone ELSE Val(FeetOf(results[j].v))]

\* [None] * n
Nones(n) == [j \in 1..n |-> PyNone]

\* fetch_elevations(locations), given the number of locations and what the
\* lookup meets
fetch_elevations(n_locations, response) ==
  IF n_locations = 0 THEN Val(<<>>)
  ELSE CASE response.t \in {"URLError", "HTTPError", "connect_timeout"} ->
              \* urllib.error.URLError, or wrapped into it by urlopen
              Val(Nones(n_locations))
         [] response.t = "read_timeout" -> Raise("TimeoutError")
         [] response.t = "undecodable" -> Raise("UnicodeDecodeError")
         [] response.t = "not_json" -> Val(Nones(n_locations))
         [] response.t = "json_array" -> Raise("AttributeError")
         [] response.t = "json_results_null" -> Raise("TypeError")
         [] response.t = "json_result_not_object" -> Raise("AttributeError")
         [] response.t = "json_elevation_string" -> Raise("TypeError")
         [] response.t = "json_no_results" -> Val(<<>>)
         [] response.t = "json" -> Val(Converted(response.results))

\* lines 61-62: records after the assignments of elevations[1..n] from
\* index first on (0-based); n is at most the number that fit
RECURSIVE Assigned(_, _, _, _)
Assigned(recs, first, elevations, n) ==
  IF n = 0 THEN recs
  ELSE LET before == Assigned(recs, first, elevations, n - 1)
       IN  [before EXCEPT ![first + n] =
              ("elevation" :> elevations[n])
              @@ [k \in DOMAIN @ \ {"elevation"} |-> @[k]]]

\* how many of n assignments from index first on stay inside the list
Fitting(total, first, n) == IF first + n <= total THEN n ELSE total - first

(***************************************************************************)
(* Specification SpecSurface: categorize_surface applied to every string   *)
(* of SurfaceInputs.                                                       *)
(***************************************************************************)
SurfaceAlphabet == {"G", "R", "E", "T", "F", "Z", "g", " "}

NamedSurfaces ==
  { <<"A","S","P","H","-","G">>,
    <<"a","s","p","h","-","g">>,
    <<" ","A","S","P","H","-","G"," ">>,
    <<"T","U","R","F","-","F">>,
    <<"T","U","R","F">>,
    <<"A","S","X","Y","Z">>,
    <<"Z","Z","Z","Z","Z">>,
    <<"\t","s","o","d","\n">> }

SurfaceInputs == NamedSurfaces \cup Strings(SurfaceAlphabet, MaxSurfaceLen)

InitSurface ==
  /\ pc = "surface_call"
  /\ surface \in SurfaceInputs
  /\ surface_cat = "pending"
  /\ exc = "none"
  /\ input_exists = TRUE
  /\ IdleAllBut("surface")

CallCategorizeSurface ==
  /\ pc = "surface_call"
  /\ surface_cat' = categorize_surface(surface)
  /\ pc' = "surface_done"
  /\ UNCHANGED <<surface, exc, input_exists, parseVars, endVars, runwayVars,
                 airportVars, elevVars>>

NextSurface == CallCategorizeSurface

SpecSurface == InitSurface /\ [][NextSurface]_vars

(***************************************************************************)
(* Specification SpecParse: parse_float and parse_int applied to every     *)
(* raw field value of ParseInputs.                                         *)
(***************************************************************************)
NumAlphabet == {"0", "1", "5", "-", ".", " ", "x"}

NamedNumbers ==
  { NoneStr,
    <<"1","2","0",".","0">>,
    <<"1","5","0">>,
    <<"-","5",".","9">>,
    <<"i","n","f">>,
    <<"-","I","n","f">>,
    <<"n","a","n">>,
    <<"I","n","f","i","n","i","t","y">>,
    <<"a","b","c">>,
    <<"\t","7","\n">> }

ParseInputs == NamedNumbers \cup Strings(NumAlphabet, MaxNumLen)

InitParse ==
  /\ pc = "parse_call"
  /\ val \in ParseInputs
  /\ parsed_float = Pending
  /\ parsed_int = Pending
  /\ exc = "none"
  /\ input_exists = TRUE
  /\ IdleAllBut("parse")

CallParseFloat ==
  /\ pc = "parse_call"
  /\ parsed_float = Pending
  /\ parsed_float' = parse_float(val)
  /\ pc' = IF parsed_int = Pending THEN "parse_call" ELSE "parse_done"
  /\ UNCHANGED <<val, parsed_int, exc, input_exists, surfaceVars, endVars,
                 runwayVars, airportVars, elevVars>>

CallParseInt ==
  /\ pc = "parse_call"
  /\ parsed_int = Pending
  /\ parsed_int' = parse_int(val)
  /\ pc' = IF parsed_float = Pending THEN "parse_call" ELSE "parse_done"
  /\ UNCHANGED <<val, parsed_float, exc, input_exists, surfaceVars, endVars,
                 runwayVars, airportVars, elevVars>>

NextParse == CallParseFloat \/ CallParseInt

SpecParse == InitParse /\ [][NextParse]_vars

(***************************************************************************)
(* Specification SpecEnd: build_runway_end applied to every row of         *)
(* EndInputs and both prefixes.                                            *)
(***************************************************************************)
\* stands for a column the header of the CSV does not have
Missing == <<"<missing>">>

\* the row's entry for a column
Column(key, value) == IF value = Missing THEN EmptyDict ELSE key :> value

EndRow(p, ident, lat, lon, elev, hdg, dt) ==
  Column(p \o "_ident", ident)
  @@ Column(p \o "_latitude_deg", lat)
  @@ Column(p \o "_longitude_deg", lon)
  @@ Column(p \o "_elevation_ft", elev)
  @@ Column(p \o "_heading_degT", hdg)
  @@ Column(p \o "_displaced_threshold_ft", dt)

EndIdents == {<<>>, <<" ">>, <<"0","4","L">>, <<" ","2","2","R"," ">>, NoneStr}
EndLats == {Missing, <<>>, <<"4","0",".","6">>, <<"a","b","c">>, <<"n","a","n">>}
EndLons == {<<>>, <<"-","7","3",".","7">>, <<"x">>}
EndElevs == {<<>>, <<"1","3">>, <<"1","2",".","9">>, <<"i","n","f">>, NoneStr}
EndHdgs == {<<>>, <<"4","4",".","5">>, <<"x">>}
EndDts == {<<>>, <<"0">>, <<"1","5","0">>, <<"-","5">>}

EndInputs ==
  { EndRow(p, ident, lat, lon, elev, hdg, dt) :
      p \in {"le", "he"}, ident \in EndIdents, lat \in EndLats,
      lon \in EndLons, elev \in EndElevs, hdg \in EndHdgs, dt \in EndDts }

InitEnd ==
  /\ pc = "end_call"
  /\ end_row \in EndInputs
  /\ end_prefix \in {"le", "he"}
  /\ end = Pending
  /\ exc = "none"
  /\ input_exists = TRUE
  /\ IdleAllBut("end")

CallBuildRunwayEnd ==
  /\ pc = "end_call"
  /\ end' = build_runway_end(end_row, end_prefix)
  /\ pc' = "end_done"
  /\ UNCHANGED <<end_row, end_prefix, exc, input_exists, surfaceVars, parseVars,
                 runwayVars, airportVars, elevVars>>

NextEnd == CallBuildRunwayEnd

SpecEnd == InitEnd /\ [][NextEnd]_vars

(***************************************************************************)
(* Specification SpecRunways: main of runways-formatter.py over every      *)
(* sequence of at most MaxRows rows of RunwayRows.                         *)
(***************************************************************************)
\* a row that gives its airport and the idents of its two ends
FilingRow(icao, le_ident, he_ident) ==
  Column("airport_ident", icao)
  @@ Column("le_ident", le_ident)
  @@ Column("he_ident", he_ident)

\* a row of airport EB, end 10, that gives the fields of the runway
FieldRow(length, width, surf, lighted, closed, le_dt, le_elev) ==
  FilingRow(<<"E","B">>, <<"1","0">>, <<>>)
  @@ Column("length_ft", length)
  @@ Column("width_ft", width)
  @@ Column("surface", surf)
  @@ Column("lighted", lighted)
  @@ Column("closed", closed)
  @@ Column("le_displaced_threshold_ft", le_dt)
  @@ Column("le_elevation_ft", le_elev)

RunwayRows ==
  { FilingRow(<<"K","A">>, <<"0","4">>, <<"2","2">>),
    FilingRow(<<" ","K","A"," ">>, <<"0","9">>, <<>>),
    FilingRow(<<"K">>, <<>>, <<"2","7","L">>),
    FilingRow(<<"E","B">>, <<" ","0","1">>, Missing),
    FilingRow(<<"k","a">>, <<"1","8">>, <<>>),
    FilingRow(<<>>, <<"0","4">>, <<>>),
    FilingRow(<<" ">>, <<"0","4">>, <<"2","2">>),
    FilingRow(<<"K","A">>, <<>>, <<" ">>),
    FilingRow(NoneStr, NoneStr, NoneStr),
    FilingRow(<<"K","A">>, <<"0","4">>, NoneStr),
    FieldRow(<<"1","2","0","0","0">>, <<"1","5","0">>, <<"A","S","P","H">>,
             <<"1">>, <<"0">>, <<"1","5","0">>, <<"1","3">>),
    FieldRow(<<"0">>, <<"0",".","9">>, <<"z","z","z">>,
             <<" ","1">>, <<"1">>, <<"-","5">>, <<>>),
    FieldRow(<<"a","b","c">>, <<>>, <<" ","t","u","r","f"," ">>,
             <<"1",".","0">>, <<"t","r","u","e">>, <<"0">>, <<"x">>),
    FieldRow(<<"1","2","0",".","0">>, <<"-","5">>, <<>>,
             <<>>, Missing, Missing, <<"1","2",".","9">>),
    FieldRow(<<"i","n","f">>, <<>>, <<>>, <<"1">>, <<>>, <<>>, <<>>),
    FieldRow(<<"9","0","0">>, <<>>, <<"m","u","d">>,
             <<"1">>, <<"1">>, <<"i","n","f">>, <<>>),
    FieldRow(<<"9","0","0">>, <<"3","0">>, NoneStr,
             <<"1">>, <<"1">>, <<>>, <<>>) }

InitRunways ==
  /\ pc = "rwy_start"
  /\ exc = "none"
  /\ input_exists \in BOOLEAN
  /\ rows = <<>>
  /\ runways_by_icao = EmptyDict
  /\ unknown_surfaces = {}
  /\ sorted_data = <<>>
  /\ IdleAllBut("runways")

\* lines 170-172: INPUT_FILE does not exist
RunwaysNoInput ==
  /\ pc = "rwy_start"
  /\ ~input_exists
  /\ pc' = "rwy_exit_1"
  /\ UNCHANGED <<exc, input_exists, surfaceVars, parseVars, endVars, runwayVars,
                 airportVars, elevVars>>

\* lines 174-178: the dicts are made and the reader is opened
RunwaysOpen ==
  /\ pc = "rwy_start"
  /\ input_exists
  /\ pc' = "rwy_reading"
  /\ UNCHANGED <<exc, input_exists, surfaceVars, parseVars, endVars, runwayVars,
                 airportVars, elevVars>>

\* lines 180-224: the reader yields a row and the loop body runs on it
RunwaysRow ==
  /\ pc = "rwy_reading"
  /\ Len(rows) < MaxRows
  /\ \E row \in RunwayRows :
       LET out == RunwayRow(row) IN
       /\ rows' = Append(rows, row)
       /\ unknown_surfaces' = unknown_surfaces \cup out.unknown
       /\ runways_by_icao' =
            IF out.t = "file"
            THEN FileRunway(runways_by_icao, out.icao, out.runway)
            ELSE runways_by_icao
       /\ pc' = IF out.t = "raise" THEN "rwy_aborted" ELSE "rwy_reading"
       /\ exc' = IF out.t = "raise" THEN out.exc ELSE exc
  /\ UNCHANGED <<input_exists, sorted_data, surfaceVars, parseVars, endVars,
                 airportVars, elevVars>>

\* lines 226-232: the reader is exhausted; the document is sorted and written
RunwaysWrite ==
  /\ pc = "rwy_reading"
  /\ sorted_data' = SortedItems(runways_by_icao)
  /\ pc' = "rwy_done"
  /\ UNCHANGED <<exc, input_exists, rows, runways_by_icao, unknown_surfaces,
                 surfaceVars, parseVars, endVars, airportVars, elevVars>>

NextRunways ==
  RunwaysNoInput \/ RunwaysOpen \/ RunwaysRow \/ RunwaysWrite

SpecRunways == InitRunways /\ [][NextRunways]_vars

(***************************************************************************)
(* Specification SpecAirports: main of airpots-formatter.py over every     *)
(* sequence of at most MaxRows rows of AirportRows.                        *)
(***************************************************************************)
AirRow(icao, ident, lat, lon, name, elevation) ==
  Column("icao_code", icao)
  @@ Column("ident", ident)
  @@ Column("latitude_deg", lat)
  @@ Column("longitude_deg", lon)
  @@ Column("name", name)
  @@ Column("elevation_ft", elevation)

Str_KA == <<"K","A">>
Str_N == <<"N">>
Str_1 == <<"1">>
Str_2 == <<"2">>

AirportRows ==
  { AirRow(<<"K","J","F","K">>, <<"J","F","K">>, <<"4","0",".","6">>,
           <<"-","7","3",".","7">>, <<"J"," ","F"," ","K">>, <<"1","3">>),
    AirRow(<<>>, <<"J","F","2">>, Str_1, Str_2, Str_N, <<>>),
    AirRow(Missing, <<" ","X","1"," ">>, Str_1, Str_2, <<" ","N"," ">>, Missing),
    AirRow(<<" ","K","A"," ">>, <<"Z","Z">>, Str_1, Str_2, Str_N, <<"0">>),
    AirRow(Str_KA, <<>>, Str_2, Str_1, <<"D","u","p">>, <<"1","2",".","9">>),
    AirRow(<<" ">>, <<"I","D">>, Str_1, Str_2, Str_N, <<"-","5",".","9">>),
    AirRow(<<>>, <<" ">>, Str_1, Str_2, Str_N, <<>>),
    AirRow(NoneStr, NoneStr, NoneStr, NoneStr, NoneStr, NoneStr),
    AirRow(Str_KA, <<>>, <<>>, Str_2, Str_N, <<>>),
    AirRow(Str_KA, <<>>, <<" ">>, Str_2, Str_N, <<>>),
    AirRow(Str_KA, <<>>, Str_1, <<"a","b","c">>, Str_N, <<>>),
    AirRow(Str_KA, <<>>, Str_1, Missing, Str_N, <<>>),
    AirRow(Str_KA, <<>>, Str_1, Str_2, <<" "," ">>, <<>>),
    AirRow(Str_KA, <<>>, Str_1, Str_2, Missing, <<>>),
    AirRow(Str_KA, <<>>, Str_1, Str_2, Str_N, <<"a","b","c">>),
    AirRow(Str_KA, <<>>, Str_1, Str_2, Str_N, <<" ">>),
    AirRow(Str_KA, <<>>, Str_1, Str_2, Str_N, <<"n","a","n">>),
    AirRow(Str_KA, <<>>, Str_1, Str_2, Str_N, <<"i","n","f">>),
    AirRow(Str_KA, <<>>, <<"n","a","n">>, <<"i","n","f">>, Str_N, NoneStr) }

InitAirports ==
  /\ pc = "air_start"
  /\ exc = "none"
  /\ input_exists \in BOOLEAN
  /\ air_rows = <<>>
  /\ airports = <<>>
  /\ air_output = "unwritten"
  /\ IdleAllBut("airports")

\* line 15: INPUT_FILE.open raises
AirportsNoInput ==
  /\ pc = "air_start"
  /\ ~input_exists
  /\ pc' = "air_aborted"
  /\ exc' = "FileNotFoundError"
  /\ UNCHANGED <<input_exists, surfaceVars, parseVars, endVars, runwayVars,
                 airportVars, elevVars>>

\* lines 13-16: the list is made and the reader is opened
AirportsOpen ==
  /\ pc = "air_start"
  /\ input_exists
  /\ pc' = "air_reading"
  /\ UNCHANGED <<exc, input_exists, surfaceVars, parseVars, endVars, runwayVars,
                 airportVars, elevVars>>

\* lines 17-43: the reader yields a row and the loop body runs on it
AirportsRow ==
  /\ pc = "air_reading"
  /\ Len(air_rows) < MaxRows
  /\ \E row \in AirportRows : \E out \in {AirportRow(row)} :
       /\ air_rows' = Append(air_rows, row)
       /\ airports' = IF out.t = "append" THEN Append(airports, out.entry)
                      ELSE airports
       /\ pc' = IF out.t = "raise" THEN "air_aborted" ELSE "air_reading"
       /\ exc' = IF out.t = "raise" THEN out.exc ELSE exc
  /\ UNCHANGED <<input_exists, air_output, surfaceVars, parseVars, endVars,
                 runwayVars, elevVars>>

\* lines 46-54: the reader is exhausted; the array is written
AirportsWrite ==
  /\ pc = "air_reading"
  /\ air_output' = airports
  /\ pc' = "air_done"
  /\ UNCHANGED <<exc, input_exists, air_rows, airports, surfaceVars, parseVars,
                 endVars, runwayVars, elevVars>>

NextAirports ==
  AirportsNoInput \/ AirportsOpen \/ AirportsRow \/ AirportsWrite

SpecAirports == InitAirports /\ [][NextAirports]_vars

(***************************************************************************)
(* Specification SpecElevation: main of add-elevation.py over every        *)
(* document of at most MaxRecords records and every response of the        *)
(* service to each lookup.                                                 *)
(***************************************************************************)
\* the elevations, in metres, the service answers with
Metres == {0, 100}

FailureKinds ==
  {"URLError", "HTTPError", "connect_timeout", "read_timeout", "undecodable",
   "not_json", "json_array", "json_results_null", "json_result_not_object",
   "json_elevation_string", "json_no_results"}

\* the responses to a lookup of n locations: a failure, or a result list
\* that is shorter, as long or one longer than the batch
Responses(n) ==
  {[t |-> kind] : kind \in FailureKinds}
  \cup {[t |-> "json", results |-> r] :
          r \in UNION {[1..k -> {PyNone} \cup {Val(m) : m \in Metres}] :
                         k \in 0..n + 1}}

\* record number k (1-based) of the document read: {"lat": k, "lon": -k}
RecordRead(k) == [lat |-> k, lon |-> -k]

InitElevation ==
  /\ pc = "elev_loop"
  /\ exc = "none"
  /\ input_exists = TRUE
  /\ \E total \in 0..MaxRecords : records = [k \in 1..total |-> RecordRead(k)]
  /\ batch_start = 0
  /\ responses = <<>>
  /\ requests = <<>>
  /\ writes = [k \in 1..Len(records) |-> 0]
  /\ elev_output = "unwritten"
  /\ IdleAllBut("elevation")

\* lines 53-68: one pass of the loop over a batch
ElevationBatch ==
  /\ pc = "elev_loop"
  /\ batch_start < Len(records)
  /\ \E response \in Responses(Fitting(Len(records), batch_start, BATCH_SIZE)) :
     \E got \in {fetch_elevations(
                   Fitting(Len(records), batch_start, BATCH_SIZE), response)} :
       /\ requests' = Append(requests, batch_start)
       /\ responses' = Append(responses, response)
       /\ IF got.t = "raise"
          THEN /\ pc' = "elev_aborted"
               /\ exc' = got.exc
               /\ UNCHANGED <<records, writes, batch_start>>
          ELSE \E n \in {Fitting(Len(records), batch_start, Len(got.v))} :
               /\ records' = Assigned(records, batch_start, got.v, n)
               /\ writes' = [k \in 1..Len(records) |->
                               IF k > batch_start /\ k <= batch_start + n
                               THEN writes[k] + 1 ELSE writes[k]]
               /\ IF n < Len(got.v)
                  THEN \* records[i + j] is past the end of the list
                       /\ pc' = "elev_aborted"
                       /\ exc' = "IndexError"
                       /\ UNCHANGED batch_start
                  ELSE /\ pc' = "elev_loop"
                       /\ batch_start' = batch_start + BATCH_SIZE
                       /\ UNCHANGED exc
  /\ UNCHANGED <<input_exists, elev_output, surfaceVars, parseVars, endVars,
                 runwayVars, airportVars>>

\* lines 70-76: the loop is over; the document is written back
ElevationSave ==
  /\ pc = "elev_loop"
  /\ batch_start >= Len(records)
  /\ elev_output' = records
  /\ pc' = "elev_done"
  /\ UNCHANGED <<exc, input_exists, records, batch_start, responses, requests,
                 writes, surfaceVars, parseVars, endVars, runwayVars,
                 airportVars>>

NextElevation == ElevationBatch \/ ElevationSave

SpecElevation == InitElevation /\ [][NextElevation]_vars

(***************************************************************************)
(* Properties.  What the properties need and the scripts do not have.      *)
(***************************************************************************)
\* a raw field after trim, a missing (None) field counting as empty
Trimmed(v) == IF v = NoneStr THEN <<>> ELSE strip(v)

Least(S) == CHOOSE x \in S : \A y \in S : x <= y

Categories == {"PG", "PP", "GG", "GF", "GV", "DT", "SD", "WT"}

\* the category of the first of n, n[:3], n[:2], n[:1] that is a key
FirstKeyOf(n) ==
  LET candidates == <<n, Prefix(n, 3), Prefix(n, 2), Prefix(n, 1)>>
      hits == {c \in 1..4 : candidates[c] \in DOMAIN SURFACE_CATEGORIES}
  IN  IF n = <<>> \/ hits = {} THEN Unidentified
      ELSE SURFACE_CATEGORIES[candidates[Least(hits)]]

\* c with its letter case changed
SwapCase(c) == IF IsIn(LowerLetters, c) THEN UpperChar(c) ELSE LowerChar(c)

\* the strings one step from s: the case of one letter changed, one
\* whitespace character put before or after it or taken from its ends
Variants(s) ==
  {[s EXCEPT ![p] = SwapCase(s[p])] : p \in 1..Len(s)}
  \cup {<<w>> \o s : w \in Whitespace}
  \cup {s \o <<w>> : w \in Whitespace}
  \cup (IF s # <<>> /\ s[1] \in Whitespace THEN {Tail(s)} ELSE {})
  \cup (IF s # <<>> /\ s[Len(s)] \in Whitespace
        THEN {SubSeq(s, 1, Len(s) - 1)} ELSE {})

\* C1: categorize_surface returns the category of the first of the
\* normalized (uppercased, trimmed) string, its first 3, 2 and 1 characters
\* that is a key of the table, and unidentified when the normalized string
\* is empty or none is a key; the result is one of the eight categories or
\* unidentified; it is the same for inputs that differ in letter case or
\* surrounding whitespace; "ASPH-G", "asph-g", " ASPH-G " give PG, "TURF-F"
\* gives GF, "ASXYZ" gives PG and "ZZZZZ" is unidentified.
C1_PrefixCascade ==
  pc = "surface_done" =>
    /\ surface_cat = FirstKeyOf(strip(upper(surface)))
    /\ surface_cat \in Categories \cup {Unidentified}
    /\ \A other \in Variants(surface) : categorize_surface(other) = surface_cat
    /\ surface \in { <<"A","S","P","H","-","G">>,
                     <<"a","s","p","h","-","g">>,
                     <<" ","A","S","P","H","-","G"," ">> } => surface_cat = "PG"
    /\ surface = <<"T","U","R","F","-","F">> => surface_cat = "GF"
    /\ surface = <<"A","S","X","Y","Z">> => surface_cat = "PG"
    /\ surface = <<"Z","Z","Z","Z","Z">> => surface_cat = Unidentified

\* C1 witness: "TURF-F" has been categorized as GF although "TUR" is GG
C1_Witness ==
  /\ pc = "surface_done"
  /\ surface = <<"T","U","R","F","-","F">>
  /\ surface_cat = "GF"
  /\ categorize_surface(<<"T","U","R">>) = "GG"

\* the row contributes by the claim's rule: airport_ident is non-empty after
\* trim and so is le_ident or he_ident
Contributes(row) ==
  /\ Trimmed(Get(row, "airport_ident", <<>>)) # <<>>
  /\ \/ Trimmed(Get(row, "le_ident", <<>>)) # <<>>
     \/ Trimmed(Get(row, "he_ident", <<>>)) # <<>>

\* the rows read that contribute under code, by their place in the input
RowsOf(code) ==
  {k \in 1..Len(rows) :
     Contributes(rows[k]) /\ Trimmed(Get(rows[k], "airport_ident", <<>>)) = code}

\* the n-th least element of a set of numbers
Nth(S, n) == CHOOSE x \in S : Cardinality({y \in S : y <= x}) = n

\* C2: a row read has contributed a RunwayRecord if and only if its
\* airport_ident is non-empty after trim and so is its le_ident or its
\* he_ident: each code holds as many records as rows contribute under it;
\* every record has 'le' or 'he', no code is empty and no list is empty.
C2_ContributesIff ==
  pc \in {"rwy_reading", "rwy_aborted", "rwy_done"} =>
    /\ \A k \in 1..Len(rows) :
         Contributes(rows[k]) =>
           Trimmed(Get(rows[k], "airport_ident", <<>>)) \in DOMAIN runways_by_icao
    /\ \A code \in DOMAIN runways_by_icao :
         /\ Len(runways_by_icao[code]) = Cardinality(RowsOf(code))
         /\ code # <<>>
         /\ runways_by_icao[code] # <<>>
         /\ \A j \in 1..Len(runways_by_icao[code]) :
              DOMAIN runways_by_icao[code][j] \cap {"le", "he"} # {}

\* a < b by code point at the first place where they differ, a proper
\* prefix first
CodeBefore(a, b) ==
  \/ Len(a) < Len(b) /\ SubSeq(b, 1, Len(a)) = a
  \/ \E p \in 1..Len(a) :
       /\ p <= Len(b)
       /\ SubSeq(a, 1, p - 1) = SubSeq(b, 1, p - 1)
       /\ Ord(a[p]) < Ord(b[p])

\* C3: the document written lists its airport codes in strictly increasing
\* code point order, none twice, and under each code the runways of the
\* rows that contribute under it, in the order of the rows.
C3_SortedKeysInputOrder ==
  pc = "rwy_done" =>
    /\ \A p, q \in 1..Len(sorted_data) :
         p < q => CodeBefore(sorted_data[p][1], sorted_data[q][1])
    /\ {sorted_data[p][1] : p \in 1..Len(sorted_data)} =
         {Trimmed(Get(rows[k], "airport_ident", <<>>)) :
            k \in {m \in 1..Len(rows) : Contributes(rows[m])}}
    /\ \A p \in 1..Len(sorted_data) :
         sorted_data[p][2] =
           [j \in 1..Cardinality(RowsOf(sorted_data[p][1])) |->
              RunwayRow(rows[Nth(RowsOf(sorted_data[p][1]), j)]).runway]

\* C3 witness: rows of KA, EB and KA were read in that order and written as
\* EB with one runway, then KA with its two runways in row order
C3_Witness ==
  /\ pc = "rwy_done"
  /\ Len(rows) = 3
  /\ Len(sorted_data) = 2
  /\ sorted_data[1][1] = <<"E","B">>
  /\ sorted_data[2][1] = <<"K","A">>
  /\ Len(sorted_data[2][2]) = 2
  /\ sorted_data[2][2][1].le.id = <<"0","4">>
  /\ sorted_data[2][2][2].le.id = <<"0","9">>
  /\ Trimmed(rows[1].airport_ident) = <<"K","A">>
  /\ Trimmed(rows[2].airport_ident) = <<"E","B">>
  /\ Trimmed(rows[3].airport_ident) = <<"K","A">>

\* the raw field is the exact string "1"
IsOne(row, column) == column \in DOMAIN row /\ row[column] = <<"1">>

\* the record's end holds 'dt' only when the side's threshold parses to an
\* integer above zero, and holds that integer
EndKeepsNoDefault(record, row, side) ==
  side \in DOMAIN record =>
    LET raw_dt == Get(row, side \o "_displaced_threshold_ft", <<>>) IN
    /\ "dt" \in DOMAIN record[side] =>
         /\ parse_int(raw_dt).t = "val"
         /\ parse_int(raw_dt).v > 0
         /\ record[side].dt = parse_int(raw_dt).v
    /\ raw_dt \in {<<"0">>, <<"-","5">>} => "dt" \notin DOMAIN record[side]
    /\ raw_dt = <<"1","5","0">> =>
         "dt" \in DOMAIN record[side] /\ record[side].dt = 150

\* the record holds no default value for the fields of its row
KeepsNoDefault(record, row) ==
  /\ "l" \in DOMAIN record =>
       /\ parse_int(Get(row, "length_ft", <<>>)).t = "val"
       /\ record.l = parse_int(Get(row, "length_ft", <<>>)).v
       /\ record.l # 0
  /\ "w" \in DOMAIN record =>
       /\ parse_int(Get(row, "width_ft", <<>>)).t = "val"
       /\ record.w = parse_int(Get(row, "width_ft", <<>>)).v
       /\ record.w # 0
  /\ "lit" \in DOMAIN record <=> IsOne(row, "lighted")
  /\ "cls" \in DOMAIN record <=> IsOne(row, "closed")
  /\ "lit" \in DOMAIN record => record.lit = 1
  /\ "cls" \in DOMAIN record => record.cls = 1
  /\ EndKeepsNoDefault(record, row, "le")
  /\ EndKeepsNoDefault(record, row, "he")

\* C4: no record of the document carries a default value: 'l' and 'w' only
\* when the parsed length or width is a non-zero integer, 'dt' only when the
\* parsed threshold is above zero ("0" and "-5" give none, "150" gives 150),
\* 'lit' and 'cls' exactly when the raw field is the exact string "1", with
\* the value 1; and the document written holds these records.
C4_NoDefaultValues ==
  pc \in {"rwy_reading", "rwy_aborted", "rwy_done"} =>
    /\ \A code \in DOMAIN runways_by_icao :
         \A j \in 1..Len(runways_by_icao[code]) :
           KeepsNoDefault(runways_by_icao[code][j],
                          rows[Nth(RowsOf(code), j)])
    /\ pc = "rwy_done" =>
         \A p \in 1..Len(sorted_data) :
           sorted_data[p][2] = runways_by_icao[sorted_data[p][1]]

\* C4 witness: the document written holds a lighted runway with a length and
\* a displaced threshold of 150, and one whose row gives length "0",
\* lighted " 1" and a threshold of "-5", without 'l', 'lit' and 'dt'
C4_Witness ==
  /\ pc = "rwy_done"
  /\ rows = << FieldRow(<<"1","2","0","0","0">>, <<"1","5","0">>,
                        <<"A","S","P","H">>, <<"1">>, <<"0">>,
                        <<"1","5","0">>, <<"1","3">>),
               FieldRow(<<"0">>, <<"0",".","9">>, <<"z","z","z">>,
                        <<" ","1">>, <<"1">>, <<"-","5">>, <<>>) >>
  /\ Len(sorted_data) = 1
  /\ Len(sorted_data[1][2]) = 2
  /\ sorted_data[1][2][1].lit = 1
  /\ sorted_data[1][2][1].le.dt = 150
  /\ sorted_data[1][2][1].l = 12000
  /\ DOMAIN sorted_data[1][2][2] = {"cls", "le"}
  /\ DOMAIN sorted_data[1][2][2].le = {"id"}

\* the end's key is there exactly when its parsed field is a value
KeyIffParsed(the_end, key, parsed) ==
  key \in DOMAIN the_end <=> parsed.t = "val"

\* C5: build_runway_end returns an end if and only if the side's ident is
\* non-empty after trim, with the trimmed ident as 'id'; each of 'lat',
\* 'lon', 'elev', 'hdg' is there exactly when its own field parses, and 'dt'
\* exactly when the threshold parses to an integer above zero; a field that
\* is empty or does not parse leaves out its own key and nothing else.
C5_EndIffIdent ==
  pc = "end_done" =>
    /\ end.t \in {"val", "None"}
    /\ end.t = "val" <=>
         Trimmed(Get(end_row, end_prefix \o "_ident", <<>>)) # <<>>
    /\ end.t = "val" =>
         /\ end.v.id = Trimmed(Get(end_row, end_prefix \o "_ident", <<>>))
         /\ KeyIffParsed(end.v, "lat",
              parse_float(Get(end_row, end_prefix \o "_latitude_deg", <<>>)))
         /\ KeyIffParsed(end.v, "lon",
              parse_float(Get(end_row, end_prefix \o "_longitude_deg", <<>>)))
         /\ KeyIffParsed(end.v, "elev",
              parse_int(Get(end_row, end_prefix \o "_elevation_ft", <<>>)))
         /\ KeyIffParsed(end.v, "hdg",
              parse_float(Get(end_row, end_prefix \o "_heading_degT", <<>>)))
         /\ "dt" \in DOMAIN end.v <=>
              LET dt == parse_int(Get(end_row,
                          end_prefix \o "_displaced_threshold_ft", <<>>))
              IN  dt.t = "val" /\ dt.v > 0

\* C6: parse_float and parse_int never raise: a string that is empty, blank,
\* not a number or not finite ("inf", "nan") gives None from both, and
\* parse_int of "120.0" is 120.
C6_ParsersTotal ==
  /\ parsed_float.t \in {"pending", "val", "None"}
  /\ parsed_int.t \in {"pending", "val", "None"}
  /\ parsed_float.t = "val" => parsed_float.v.k = "fin"
  /\ lower(strip(val)) \in {<<>>, Str_inf, Str_nan, <<"a","b","c">>} =>
       /\ parsed_float \in {Pending, PyNone}
       /\ parsed_int \in {Pending, PyNone}
  /\ val = <<"1","2","0",".","0">> => parsed_int \in {Pending, Val(120)}

\* the code the claims give a row: the trimmed icao_code, or the trimmed
\* ident when that is empty
AirportCode(row) ==
  IF Trimmed(Get(row, "icao_code", NoneStr)) # <<>>
  THEN Trimmed(Get(row, "icao_code", NoneStr))
  ELSE Trimmed(Get(row, "ident", NoneStr))

\* none of the reasons to drop the row holds: it has a code, a latitude, a
\* longitude and a non-empty name, the latitude and the longitude parse as
\* numbers, and the elevation is empty or parses to an integer
Accepted(row) ==
  /\ AirportCode(row) # <<>>
  /\ ~Falsy(Get(row, "latitude_deg", NoneStr))
  /\ ~Falsy(Get(row, "longitude_deg", NoneStr))
  /\ Trimmed(Get(row, "name", NoneStr)) # <<>>
  /\ PyFloat(Get(row, "latitude_deg", NoneStr)).t = "val"
  /\ PyFloat(Get(row, "longitude_deg", NoneStr)).t = "val"
  /\ \/ Falsy(Get(row, "elevation_ft", NoneStr))
     \/ IntOfFloat(PyFloat(Get(row, "elevation_ft", NoneStr))).t = "val"

\* C7: the airport normalizer drops a row or appends it and never raises on
\* it: no row read stops the run, and the rows appended are as many as the
\* rows read that no reason drops.
C7_DropsOrAppends ==
  pc \in {"air_reading", "air_aborted", "air_done"} =>
    /\ pc = "air_aborted" => air_rows = <<>>
    /\ exc \in {"none", "FileNotFoundError"}
    /\ Len(airports) =
         Cardinality({k \in 1..Len(air_rows) : Accepted(air_rows[k])})

\* the code and the name of the accepted rows of rs, in the order of rs
RECURSIVE AcceptedOf(_)
AcceptedOf(rs) ==
  IF rs = <<>> THEN <<>>
  ELSE AcceptedOf(SubSeq(rs, 1, Len(rs) - 1))
       \o (IF Accepted(rs[Len(rs)])
           THEN << <<AirportCode(rs[Len(rs)]),
                     Trimmed(Get(rs[Len(rs)], "name", NoneStr))>> >>
           ELSE <<>>)

\* C8: the airports are the accepted rows in the order of the rows, a code
\* that comes again kept again; the code of an entry is the trimmed
\* icao_code when it is non-empty and the trimmed ident otherwise; and the
\* array written is that list.
C8_AcceptedInOrder ==
  pc \in {"air_reading", "air_aborted", "air_done"} =>
    /\ [k \in 1..Len(airports) |-> <<airports[k][1], airports[k][4]>>]
         = AcceptedOf(air_rows)
    /\ pc = "air_done" => air_output = airports

\* C8 witness: three rows were read, of icao_code " KA " with ident "ZZ",
\* of no code at all and of icao_code "KA" again, and the array written
\* holds two entries of code KA, which differ
C8_Witness ==
  /\ pc = "air_done"
  /\ Len(air_rows) = 3
  /\ Get(air_rows[1], "icao_code", NoneStr) = <<" ","K","A"," ">>
  /\ Get(air_rows[1], "ident", NoneStr) = <<"Z","Z">>
  /\ ~Accepted(air_rows[2])
  /\ Len(air_output) = 2
  /\ air_output[1][1] = <<"K","A">>
  /\ air_output[2][1] = <<"K","A">>
  /\ air_output[1][4] # air_output[2][4]

\* the records (1-based) of lookup number b
BatchOf(b) ==
  {k \in 1..Len(records) :
     (b - 1) * BATCH_SIZE < k /\ k <= b * BATCH_SIZE}

\* C9: a lookup that fails (the service is not reached, times out, or
\* answers with a body that is no JSON or has not the expected shape) does
\* not stop the run and leaves every record of its batch with an elevation
\* of null.
C9_FailedBatchNull ==
  \A b \in 1..Len(responses) :
    responses[b].t \in FailureKinds =>
      /\ ~(pc = "elev_aborted" /\ b = Len(responses))
      /\ \A k \in BatchOf(b) :
           /\ "elevation" \in DOMAIN records[k]
           /\ records[k].elevation = PyNone

\* what lookup number b returns
Fetched(b) ==
  fetch_elevations(Fitting(Len(records), (b - 1) * BATCH_SIZE, BATCH_SIZE),
                   responses[b])

\* C10: the batches are looked up in index order, each once; no record is
\* written twice and none past the end of the list; and once the loop is
\* over every record has been written once, with the result at its own
\* position of the lookup of its own batch.
C10_EachRecordOnce ==
  /\ \A b \in 1..Len(requests) : requests[b] = (b - 1) * BATCH_SIZE
  /\ exc # "IndexError"
  /\ \A k \in 1..Len(writes) : writes[k] <= 1
  /\ pc = "elev_done" =>
       \A k \in 1..Len(records) :
         /\ writes[k] = 1
         /\ Fetched(((k - 1) \div BATCH_SIZE) + 1).t = "val"
         /\ ((k - 1) % BATCH_SIZE) + 1
              <= Len(Fetched(((k - 1) \div BATCH_SIZE) + 1).v)
         /\ records[k].elevation =
              Fetched(((k - 1) \div BATCH_SIZE) + 1).v[((k - 1) % BATCH_SIZE) + 1]

====
